---- MODULE Spec2Model ----
(***************************************************************************)
(* Model of packages/web3-eth/src/utils/detect_transaction_type.ts:        *)
(* defaultTransactionTypeParser (the field-based classifier), the helper   *)
(* validateTxTypeAndHandleErrors with its three schemas, and               *)
(* detectRawTransactionType (the structural sniffer).                      *)
(*                                                                         *)
(* JavaScript values are records [t, hex, num, str]:                       *)
(*   t = "undefined" | "null" | "number" | "hexstring" | "string" |        *)
(*       "object";                                                         *)
(*   hex is the digit sequence of a 0x-prefixed string ('0x02' is          *)
(*   <<0, 2>>), num the value of a number, str the text of a plain string. *)
(***************************************************************************)
EXTENDS Integers, Sequences, FiniteSets, TLC

VARIABLES mode, pc, tx, out, out2, raw, rawOut

vars == <<mode, pc, tx, out, out2, raw, rawOut>>

(* ------------------------------ bounds -------------------------------- *)

\* explicit `type` values 0..MaxTypeNum are tried, as numbers and as strings
MaxTypeNum == 3
\* number of bytes of a serialized transaction after its first byte
MaxTailLen == 2

\* largest value of an element of a Uint8Array
ByteMax == 255

(* --------------------------- JavaScript values ------------------------ *)

Undefined == [t |-> "undefined", hex |-> <<>>, num |-> 0, str |-> ""]
Null == [t |-> "null", hex |-> <<>>, num |-> 0, str |-> ""]
Num(n) == [t |-> "number", hex |-> <<>>, num |-> n, str |-> ""]
HexStr(digits) == [t |-> "hexstring", hex |-> digits, num |-> 0, str |-> ""]
Str(s) == [t |-> "string", hex |-> <<>>, num |-> 0, str |-> s]
Obj == [t |-> "object", hex |-> <<>>, num |-> 0, str |-> ""]

\* the three known type tags '0x0', '0x1', '0x2'
Tag0x0 == <<0>>
Tag0x1 == <<1>>
Tag0x2 == <<2>>

isNullish(v) == v.t \in {"undefined", "null"}

(* ------------------------ web3-utils conversions ---------------------- *)

\* BigInt('0x...'): the value of a digit sequence, most significant first
RECURSIVE HexToNumber(_)
HexToNumber(digits) ==
    IF digits = <<>> THEN 0
    ELSE 16 * HexToNumber(SubSeq(digits, 1, Len(digits) - 1))
         + digits[Len(digits)]

\* n.toString(16): the digits of n, without leading zeros
RECURSIVE numberToHex(_)
numberToHex(n) ==
    IF n < 16 THEN <<n>> ELSE numberToHex(n \div 16) \o <<n % 16>>

toBigInt(v) == IF v.t = "number" THEN v.num ELSE HexToNumber(v.hex)

\* format({ format: 'uint' }, value, ETH_DATA_FORMAT)
formatUint(v) == HexStr(numberToHex(toBigInt(v)))

\* toHex(number)
toHex(n) == HexStr(numberToHex(n))

(* ----------------------------- hardforks ------------------------------ *)

HardforksOrdered ==
    << "chainstart", "frontier", "homestead", "dao", "tangerineWhistle",
       "spuriousDragon", "byzantium", "constantinople", "petersburg",
       "istanbul", "muirGlacier", "berlin", "london", "altair",
       "arrowGlacier", "grayGlacier", "bellatrix", "merge", "capella",
       "shanghai" >>

\* Array.prototype.indexOf, zero-based, -1 when the element is not found
indexOf(arr, v) ==
    IF v.t = "string" /\ \E i \in 1..Len(arr) : arr[i] = v.str
    THEN (CHOOSE i \in 1..Len(arr) : arr[i] = v.str) - 1
    ELSE -1

(* ------------------------- outcomes of a call ------------------------- *)

NotRun == [kind |-> "none", value |-> Undefined, errType |-> <<>>,
           errFields |-> {}]
Return(v) == [kind |-> "return", value |-> v, errType |-> <<>>,
              errFields |-> {}]
Raise(txType, fields) == [kind |-> "raise", value |-> Undefined,
                          errType |-> txType, errFields |-> fields]

(* ------------------------------ schemas ------------------------------- *)

\* a schema is the set of properties whose type must be 'null'
transactionType0x0Schema == {"accessList", "maxFeePerGas", "maxPriorityFeePerGas"}

\* variant: the schema of 0x0 is used for 0x1
transactionType0x1SchemaWithAccessList == {"accessList", "maxFeePerGas", "maxPriorityFeePerGas"}

transactionType0x1Schema == {"maxFeePerGas", "maxPriorityFeePerGas"}

transactionType0x2Schema == {"gasPrice"}

\* validator.validateJSONSchema: the properties that break the schema
\* (undefined is treated as null)
validateJSONSchema(txSchema, t) == {f \in txSchema : ~isNullish(t[f])}

\* The result of the call: NotRun when nothing is thrown, else the
\* InvalidPropertiesForTransactionTypeError that is thrown.
validateTxTypeAndHandleErrors(txSchema, t, txType) ==
    LET errors == validateJSONSchema(txSchema, t)
    IN  IF errors = {} THEN NotRun ELSE Raise(txType, errors)

\* validate, then return `result` unless the validation threw
ValidateAndReturn(txSchema, t, txType, result) ==
    LET thrown == validateTxTypeAndHandleErrors(txSchema, t, txType)
    IN  IF thrown.kind = "raise" THEN thrown ELSE result

(* ---------------------- defaultTransactionTypeParser ------------------ *)

\* variant: an explicit type is returned without validation
ExplicitTypeNoValidation(t) == Return(formatUint(t.type))

\* variant: an unknown explicit type is returned without formatting
ExplicitTypeUnformatted(t) ==
    IF t.type = HexStr(Tag0x0)
    THEN ValidateAndReturn(transactionType0x0Schema, t, t.type.hex,
                           Return(formatUint(t.type)))
    ELSE IF t.type = HexStr(Tag0x1)
    THEN ValidateAndReturn(transactionType0x1Schema, t, t.type.hex,
                           Return(formatUint(t.type)))
    ELSE IF t.type = HexStr(Tag0x2)
    THEN ValidateAndReturn(transactionType0x2Schema, t, t.type.hex,
                           Return(formatUint(t.type)))
    ELSE Return(t.type)

\* `type` is given: a known tag is validated against its schema, anything
\* else is formatted and returned as it is
ExplicitType(t) ==
    IF t.type = HexStr(Tag0x0)
    THEN ValidateAndReturn(transactionType0x0Schema, t, t.type.hex,
                           Return(formatUint(t.type)))
    ELSE IF t.type = HexStr(Tag0x1)
    THEN ValidateAndReturn(transactionType0x1Schema, t, t.type.hex,
                           Return(formatUint(t.type)))
    ELSE IF t.type = HexStr(Tag0x2)
    THEN ValidateAndReturn(transactionType0x2Schema, t, t.type.hex,
                           Return(formatUint(t.type)))
    ELSE Return(formatUint(t.type))

\* variant: the negation of isNullish(tx.gas) is lost
LegacyShapeGasMissing(t) == isNullish(t.gas) /\ ~isNullish(t.gasPrice)

LegacyShape(t) == ~isNullish(t.gas) /\ ~isNullish(t.gasPrice)

DynamicFeeShape(t) ==
    ~isNullish(t.maxFeePerGas) \/ ~isNullish(t.maxPriorityFeePerGas)

AccessListShape(t) == ~isNullish(t.accessList)

\* gasPrice without gas: validated as a legacy transaction, nothing returned
GasPriceOnly(t) ==
    IF ~isNullish(t.gasPrice)
    THEN validateTxTypeAndHandleErrors(transactionType0x0Schema, t, Tag0x0)
    ELSE NotRun

\* variant: tx.common?.hardfork ?? tx.hardfork
givenHardforkCommonFirst(t) ==
    IF ~isNullish(t.common) /\ ~isNullish(t.commonHardfork)
    THEN t.commonHardfork
    ELSE t.hardfork

\* tx.hardfork ?? tx.common?.hardfork
givenHardfork(t) ==
    IF ~isNullish(t.hardfork) THEN t.hardfork
    ELSE IF isNullish(t.common) THEN Undefined
    ELSE t.commonHardfork

\* variant: every hardfork up to Berlin is taken for Berlin
HardforkFallbackUpToBerlin(t) ==
    LET hardforkIndex == indexOf(HardforksOrdered, givenHardfork(t))
    IN  IF givenHardfork(t) = Undefined THEN Return(Undefined)
        ELSE IF hardforkIndex >= indexOf(HardforksOrdered, Str("london"))
        THEN IF ~isNullish(t.gasPrice) THEN Return(HexStr(Tag0x0))
             ELSE Return(HexStr(Tag0x2))
        ELSE IF hardforkIndex <= indexOf(HardforksOrdered, Str("berlin"))
        THEN Return(HexStr(Tag0x0))
        ELSE Return(Undefined)

\* indexOf returns a number, so `hardforkIndex === undefined` is never true
\* and an unknown name goes on with hardforkIndex = -1
HardforkFallback(t) ==
    LET hardforkIndex == indexOf(HardforksOrdered, givenHardfork(t))
    IN  IF givenHardfork(t) = Undefined THEN Return(Undefined)
        ELSE IF hardforkIndex >= indexOf(HardforksOrdered, Str("london"))
        THEN IF ~isNullish(t.gasPrice) THEN Return(HexStr(Tag0x0))
             ELSE Return(HexStr(Tag0x2))
        ELSE IF hardforkIndex = indexOf(HardforksOrdered, Str("berlin"))
        THEN Return(HexStr(Tag0x0))
        ELSE Return(Undefined)

\* variant: the dynamic-fee rule is tried before the legacy rule
defaultTransactionTypeParserDynamicFirst(t) ==
    IF ~isNullish(t.type) THEN ExplicitType(t)
    ELSE IF DynamicFeeShape(t)
    THEN ValidateAndReturn(transactionType0x2Schema, t, Tag0x2,
                           Return(HexStr(Tag0x2)))
    ELSE IF LegacyShape(t)
    THEN ValidateAndReturn(transactionType0x0Schema, t, Tag0x0,
                           Return(HexStr(Tag0x0)))
    ELSE IF AccessListShape(t)
    THEN ValidateAndReturn(transactionType0x1Schema, t, Tag0x1,
                           Return(HexStr(Tag0x1)))
    ELSE IF GasPriceOnly(t).kind = "raise" THEN GasPriceOnly(t)
    ELSE HardforkFallback(t)

defaultTransactionTypeParser(t) ==
    IF ~isNullish(t.type) THEN ExplicitType(t)
    ELSE IF LegacyShape(t)
    THEN ValidateAndReturn(transactionType0x0Schema, t, Tag0x0,
                           Return(HexStr(Tag0x0)))
    ELSE IF DynamicFeeShape(t)
    THEN ValidateAndReturn(transactionType0x2Schema, t, Tag0x2,
                           Return(HexStr(Tag0x2)))
    ELSE IF AccessListShape(t)
    THEN ValidateAndReturn(transactionType0x1Schema, t, Tag0x1,
                           Return(HexStr(Tag0x1)))
    ELSE IF GasPriceOnly(t).kind = "raise" THEN GasPriceOnly(t)
    ELSE HardforkFallback(t)

(* ------------------------ detectRawTransactionType -------------------- *)

\* variant: the comparison is >= 0x7f
detectRawTransactionTypeFrom0x7f(transaction) ==
    IF transaction[1] >= 127 THEN HexStr(Tag0x0) ELSE toHex(transaction[1])

detectRawTransactionType(transaction) ==
    IF transaction[1] > 127 THEN HexStr(Tag0x0) ELSE toHex(transaction[1])

(* ------------------------------- inputs ------------------------------- *)

TypeValues ==
    {Undefined, Null}
        \cup {Num(n) : n \in 0..MaxTypeNum}
        \cup {HexStr(<<n>>) : n \in 0..MaxTypeNum}
        \cup {HexStr(<<0, n>>) : n \in 0..MaxTypeNum}

NumberValues == {Undefined, Null, HexStr(<<5, 2, 0, 8>>)}

AccessListValues == {Undefined, Null, Obj}

HardforkNames == {"muirGlacier", "berlin", "london", "shanghai",
                  "notAHardfork"}

HardforkValues == {Undefined, Null} \cup {Str(h) : h \in HardforkNames}

\* tx.common with tx.common.hardfork
CommonValues ==
    {<<Undefined, Undefined>>, <<Null, Undefined>>}
        \cup {<<Obj, h>> : h \in {Undefined, Null, Str("homestead"),
                                  Str("berlin"), Str("london"),
                                  Str("notAHardfork")}}

TxInputs ==
    {[type |-> ty, gas |-> g, gasPrice |-> gp, maxFeePerGas |-> mf,
      maxPriorityFeePerGas |-> mp, accessList |-> al, hardfork |-> hf,
      common |-> c[1], commonHardfork |-> c[2]] :
        ty \in TypeValues, g \in NumberValues, gp \in NumberValues,
        mf \in NumberValues, mp \in NumberValues, al \in AccessListValues,
        hf \in HardforkValues, c \in CommonValues}

NoTx == [type |-> Undefined, gas |-> Undefined, gasPrice |-> Undefined,
         maxFeePerGas |-> Undefined, maxPriorityFeePerGas |-> Undefined,
         accessList |-> Undefined, hardfork |-> Undefined,
         common |-> Undefined, commonHardfork |-> Undefined]

TailBytes == {0, 2, 192}

RawInputs ==
    {<<b>> \o tail : b \in 0..ByteMax,
                     tail \in UNION {[1..k -> TailBytes] : k \in 0..MaxTailLen}}

(* ---------------------------- state machine --------------------------- *)

Init ==
    /\ mode \in {"fields", "raw"}
    /\ pc = "start"
    /\ IF mode = "fields"
       THEN tx \in TxInputs /\ raw = <<>>
       ELSE tx = NoTx /\ raw \in RawInputs
    /\ out = NotRun
    /\ out2 = NotRun
    /\ rawOut = Undefined

\* defaultTransactionTypeParser(tx)
Classify ==
    /\ mode = "fields"
    /\ pc = "start"
    /\ out' = defaultTransactionTypeParser(tx)
    /\ pc' = "classified"
    /\ UNCHANGED <<mode, tx, out2, raw, rawOut>>

\* defaultTransactionTypeParser({ ...tx, type: T }) for the tag T returned
\* by the first call
Reclassify ==
    /\ mode = "fields"
    /\ pc = "classified"
    /\ out.kind = "return"
    /\ out.value # Undefined
    /\ out2' = defaultTransactionTypeParser([tx EXCEPT !.type = out.value])
    /\ pc' = "reclassified"
    /\ UNCHANGED <<mode, tx, out, raw, rawOut>>

\* detectRawTransactionType(raw)
DetectRaw ==
    /\ mode = "raw"
    /\ pc = "start"
    /\ rawOut' = detectRawTransactionType(raw)
    /\ pc' = "detected"
    /\ UNCHANGED <<mode, tx, out, out2, raw>>

Next == Classify \/ Reclassify \/ DetectRaw

Spec == Init /\ [][Next]_vars

(* ------------------------- vocabulary of the claims ------------------- *)

Present(f) == tx[f].t \notin {"undefined", "null"}

KnownTags == {<<0>>, <<1>>, <<2>>}

ForbiddenFor(tag) ==
    CASE tag = <<0>> -> {"accessList", "maxFeePerGas", "maxPriorityFeePerGas"}
      [] tag = <<1>> -> {"maxFeePerGas", "maxPriorityFeePerGas"}
      [] tag = <<2>> -> {"gasPrice"}

NonNullForbidden(tag) == {f \in ForbiddenFor(tag) : Present(f)}

Tagged(tag) == [t |-> "hexstring", hex |-> tag, num |-> 0, str |-> ""]

Returned(tag) == out.kind = "return" /\ out.value = Tagged(tag)

Indeterminate == out.kind = "return" /\ out.value.t = "undefined"

Raised(tag, fields) ==
    out.kind = "raise" /\ out.errType = tag /\ out.errFields = fields

Classified == mode = "fields" /\ pc # "start"

TypeAbsent == ~Present("type")

ExplicitKnown(tag) == tx.type.t = "hexstring" /\ tx.type.hex = tag

\* no shape rule applies: not gas with gasPrice, no dynamic-fee field, no
\* access list
NoShape ==
    /\ TypeAbsent
    /\ ~(Present("gas") /\ Present("gasPrice"))
    /\ ~Present("maxFeePerGas")
    /\ ~Present("maxPriorityFeePerGas")
    /\ ~Present("accessList")

\* the hardfork in effect: tx.hardfork when present, else tx.common.hardfork
EffectiveHardfork ==
    IF Present("hardfork") THEN tx.hardfork
    ELSE IF tx.common.t = "object" THEN tx.commonHardfork
    ELSE [t |-> "undefined", hex |-> <<>>, num |-> 0, str |-> ""]

PreBerlinNames ==
    {"chainstart", "frontier", "homestead", "dao", "tangerineWhistle",
     "spuriousDragon", "byzantium", "constantinople", "petersburg",
     "istanbul", "muirGlacier"}

LondonOrLaterNames ==
    {"london", "altair", "arrowGlacier", "grayGlacier", "bellatrix", "merge",
     "capella", "shanghai"}

EffectiveIn(names) ==
    EffectiveHardfork.t = "string" /\ EffectiveHardfork.str \in names

(* -------------------------------- claims ------------------------------ *)

\* C1: an explicit type '0x0', '0x1' or '0x2' on a record with a non-null
\* field forbidden for that type raises the incompatible-fields error for
\* the declared type, naming exactly the non-null forbidden fields,
\* whatever the other fields and the hardfork are.
C1_ExplicitTypeForbiddenFieldsRaise ==
    Classified =>
        \A tag \in KnownTags :
            (ExplicitKnown(tag) /\ NonNullForbidden(tag) # {})
                => Raised(tag, NonNullForbidden(tag))

C1_Witness ==
    /\ Classified
    /\ ExplicitKnown(<<0>>)
    /\ Present("accessList") /\ Present("maxFeePerGas")
    /\ ~Present("maxPriorityFeePerGas")
    /\ EffectiveIn({"london"})
    /\ Raised(<<0>>, {"accessList", "maxFeePerGas"})

\* C2: an explicit type '0x0', '0x1' or '0x2' on a record whose forbidden
\* fields are all absent or null is returned as it is, without raising,
\* whatever gas, the other fields and the hardfork are.
C2_ExplicitTypeReturned ==
    Classified =>
        \A tag \in KnownTags :
            (ExplicitKnown(tag) /\ NonNullForbidden(tag) = {})
                => Returned(tag)

C2_Witness ==
    /\ Classified
    /\ ExplicitKnown(<<2>>)
    /\ tx.gasPrice.t = "null"
    /\ Present("gas") /\ Present("accessList")
    /\ EffectiveIn({"muirGlacier"})
    /\ Returned(<<2>>)

\* C3 as stated: gas and gasPrice present and no dynamic-fee field and no
\* access list give '0x0', whatever the hardfork is (nothing is said about
\* `type`).
C3_LegacyShapeAnyType ==
    Classified =>
        ((/\ Present("gas") /\ Present("gasPrice")
          /\ ~Present("maxFeePerGas") /\ ~Present("maxPriorityFeePerGas")
          /\ ~Present("accessList"))
            => Returned(<<0>>))

\* C3 amended: with `type` absent, gas and gasPrice present and no
\* dynamic-fee field and no access list give '0x0', whatever the hardfork is.
C3_LegacyShapeTypeAbsent ==
    Classified =>
        ((/\ TypeAbsent
          /\ Present("gas") /\ Present("gasPrice")
          /\ ~Present("maxFeePerGas") /\ ~Present("maxPriorityFeePerGas")
          /\ ~Present("accessList"))
            => Returned(<<0>>))

C3_Witness ==
    /\ Classified
    /\ TypeAbsent
    /\ Present("gas") /\ Present("gasPrice")
    /\ ~Present("maxFeePerGas") /\ ~Present("maxPriorityFeePerGas")
    /\ ~Present("accessList")
    /\ EffectiveIn({"muirGlacier"})
    /\ Returned(<<0>>)

\* C4: with `type` absent and no shape rule matching, the result is decided
\* by the effective hardfork (tx.hardfork before the common one) and by the
\* presence of gasPrice: London or later gives '0x0' with gasPrice and '0x2'
\* without, Berlin gives '0x0', a hardfork before Berlin gives indeterminate.
C4_HardforkFallback ==
    (Classified /\ NoShape) =>
        /\ EffectiveIn(LondonOrLaterNames) =>
               IF Present("gasPrice") THEN Returned(<<0>>)
               ELSE Returned(<<2>>)
        /\ EffectiveIn({"berlin"}) => Returned(<<0>>)
        /\ EffectiveIn(PreBerlinNames) => Indeterminate

C4_Witness ==
    /\ Classified /\ NoShape
    /\ ~Present("gasPrice")
    /\ tx.hardfork.t = "string" /\ tx.hardfork.str = "shanghai"
    /\ tx.common.t = "object"
    /\ tx.commonHardfork.t = "string" /\ tx.commonHardfork.str = "homestead"
    /\ Returned(<<2>>)

\* C5: with `type` absent and no shape rule matching (gasPrice alone
\* included), a missing, null or unrecognized effective hardfork gives the
\* indeterminate result and never an error or a tag.
C5_IndeterminateNeverRaises ==
    (Classified /\ NoShape) =>
        ((\/ EffectiveHardfork.t \in {"undefined", "null"}
          \/ /\ EffectiveHardfork.t = "string"
             /\ EffectiveHardfork.str \notin
                    PreBerlinNames \cup {"berlin"} \cup LondonOrLaterNames)
            => Indeterminate)

C5_Witness ==
    /\ Classified /\ NoShape
    /\ Present("gasPrice")
    /\ EffectiveHardfork.t = "string"
    /\ EffectiveHardfork.str = "notAHardfork"
    /\ Indeterminate

\* C6: classification is idempotent: the tag a call returns, fed back as
\* `type` with the other fields unchanged, is returned again.
C6_Idempotent == (mode = "fields" /\ pc = "reclassified") => out2 = out

\* C7: a `type` that is present and is not '0x0', '0x1' or '0x2' is returned
\* as canonical uint hex, without validation and without the hardfork:
\* no combination of the other fields raises or changes the tag.
\* (every `type` tried has a value below 16, hence a one-digit tag)
C7_UnknownTypePassesThrough ==
    (Classified /\ Present("type") /\ \A tag \in KnownTags : ~ExplicitKnown(tag))
        => Returned(IF tx.type.t = "number" THEN <<tx.type.num>>
                    ELSE <<tx.type.hex[Len(tx.type.hex)]>>)

C7_Witness ==
    /\ Classified
    /\ tx.type.t = "hexstring" /\ tx.type.hex = <<0, 3>>
    /\ Present("gasPrice") /\ Present("maxFeePerGas") /\ Present("accessList")
    /\ Returned(<<3>>)

\* C8: detectRawTransactionType depends on the first byte b only: '0x0' for
\* b in 128..255, the hexadecimal tag of value b for b in 0..127.
C8_RawFirstByte ==
    (mode = "raw" /\ pc = "detected") =>
        rawOut = Tagged(IF raw[1] > 127 THEN <<0>>
                        ELSE IF raw[1] < 16 THEN <<raw[1]>>
                        ELSE <<raw[1] \div 16, raw[1] % 16>>)

C8_Witness ==
    /\ mode = "raw" /\ pc = "detected"
    /\ raw = <<127, 192, 2>>
    /\ rawOut = Tagged(<<7, 15>>)

\* C9: with `type` absent the shape rules apply in the order legacy,
\* dynamic-fee, access-list; the first rule that matches decides the call
\* and raises for its own type when the record has a field forbidden for it.
C9_FirstMatchingRuleDecides ==
    (Classified /\ TypeAbsent) =>
        IF Present("gas") /\ Present("gasPrice")
        THEN IF NonNullForbidden(<<0>>) # {}
             THEN Raised(<<0>>, NonNullForbidden(<<0>>))
             ELSE Returned(<<0>>)
        ELSE IF Present("maxFeePerGas") \/ Present("maxPriorityFeePerGas")
        THEN IF Present("gasPrice") THEN Raised(<<2>>, {"gasPrice"})
             ELSE Returned(<<2>>)
        ELSE Present("accessList") => Returned(<<1>>)

C9_Witness ==
    /\ Classified /\ TypeAbsent
    /\ Present("gas") /\ Present("gasPrice")
    /\ Present("maxPriorityFeePerGas") /\ Present("accessList")
    /\ ~Present("maxFeePerGas")
    /\ Raised(<<0>>, {"accessList", "maxPriorityFeePerGas"})

\* C10: whenever the call returns '0x0', '0x1' or '0x2', the record has no
\* non-null field forbidden for the returned type.
C10_ReturnedTypeIsCompatible ==
    Classified =>
        \A tag \in KnownTags : Returned(tag) => NonNullForbidden(tag) = {}

====
